---- MODULE Spec2Model ----
(***************************************************************************)
(* Union-find type solver of tipc (UnionFindSolver.cpp).                   *)
(*                                                                         *)
(* The solver keeps two maps keyed by identifier strings:                  *)
(*   node2root : identifier -> parent identifier                           *)
(*   node2type : identifier -> TIPtype* (nullptr when unbound)             *)
(* Identifiers are modelled as 1..NumIds, TIPtype objects as addresses     *)
(* 1..Len(TypeHeap) into a fixed heap of type terms, nullptr as NULL.      *)
(* thrown names the operation whose last call threw TIPTypeError; applied  *)
(* and failed belong to the caller of SpecOrder, who records the           *)
(* constraints issued to the solver and whether one of them threw.         *)
(***************************************************************************)
EXTENDS Integers, Sequences, FiniteSets, Bags, TLC

VARIABLES node2root, node2type, thrown, applied, failed

vars == <<node2root, node2type, thrown, applied, failed>>

\* Number of distinct identifier strings the callers use.
NumIds == 3

\* Largest number of constraints a caller issues to one solver when the
\* order of constraints is under study.
MaxCons == 3

Ids == 1..NumIds

\* nullptr
NULL == 0

(***************************************************************************)
(* Type terms.  The TIPtype classes are declared outside the excerpt; the  *)
(* terms and their printed form follow the data model: Int, Var(id),       *)
(* Pointer(inner), Function(params, result), Record(fields).               *)
(***************************************************************************)
TInt == [kind |-> "int"]

TVar(n) == [kind |-> "var", id |-> n]

TPtr(t) == [kind |-> "ptr", inner |-> t]

TFun(ps, r) == [kind |-> "fun", params |-> ps, result |-> r]

TRec(fs) == [kind |-> "rec", fields |-> fs]

\* Decimal digit of a small number, used in the printed form of a variable.
Digit(n) == CASE n = 0 -> "0" [] n = 1 -> "1" [] n = 2 -> "2" [] n = 3 -> "3"
              [] n = 4 -> "4" [] n = 5 -> "5" [] n = 6 -> "6" [] n = 7 -> "7"
              [] n = 8 -> "8" [] OTHER -> "9"

\* Field names are ordered lexicographically; the model's names are single
\* letters whose order is given here.
NameRank(f) == CASE f = "a" -> 1 [] f = "b" -> 2 [] f = "c" -> 3 [] OTHER -> 4

\* The fields of a record in lexicographic order of their names.
RECURSIVE SortFields(_)
SortFields(fs) ==
  IF Len(fs) = 0 THEN << >>
  ELSE LET m == CHOOSE i \in 1..Len(fs) :
                   \A j \in 1..Len(fs) :
                      \/ NameRank(fs[i].name) < NameRank(fs[j].name)
                      \/ (NameRank(fs[i].name) = NameRank(fs[j].name) /\ i <= j)
           rest == [k \in 1..(Len(fs) - 1) |-> IF k < m THEN fs[k] ELSE fs[k + 1]]
       IN  <<fs[m]>> \o SortFields(rest)

\* TIPtype::print(): the canonical printed form of a term.
RECURSIVE print(_)
RECURSIVE printList(_)
RECURSIVE printFields(_)
print(t) ==
  CASE t.kind = "int" -> "int"
    [] t.kind = "var" -> "α<" \o Digit(t.id) \o ">"
    [] t.kind = "ptr" -> "&" \o print(t.inner)
    [] t.kind = "fun" -> "(" \o printList(t.params) \o ") -> " \o print(t.result)
    [] t.kind = "rec" -> "{" \o printFields(SortFields(t.fields)) \o "}"

printList(ts) ==
  IF Len(ts) = 0 THEN ""
  ELSE IF Len(ts) = 1 THEN print(ts[1])
  ELSE print(ts[1]) \o "," \o printList(Tail(ts))

printFields(fs) ==
  IF Len(fs) = 0 THEN ""
  ELSE IF Len(fs) = 1 THEN fs[1].name \o ":" \o print(fs[1].type)
  ELSE fs[1].name \o ":" \o print(fs[1].type) \o "," \o printFields(Tail(fs))

\* The TIPtype objects the callers hand to the solver.  Two distinct objects
\* may denote the same term (addresses 1 and 2).
TypeHeap == << TInt, TInt, TPtr(TInt), TPtr(TVar(1)) >>

TypePtrs == 1..Len(TypeHeap)

\* typex->print() for a non-null pointer
printAt(p) == print(TypeHeap[p])

(***************************************************************************)
(* The solver's operations as functions of the two maps.  A solver state   *)
(* is a record [root, type]; an outcome adds err (TIPTypeError thrown)     *)
(* and ret (the value returned, NULL when the operation returns nothing).  *)
(* An outcome of setType also has undef: the call ran into undefined       *)
(* behaviour, and the outcome then says only what the maps held when it    *)
(* did, not how the call ended.                                            *)
(***************************************************************************)
\* UnionFindSolver::sameType
sameType(typex, typey) ==
  IF typex = typey THEN TRUE
  ELSE IF typex = NULL \/ typey = NULL THEN FALSE
  ELSE printAt(typex) = printAt(typey)

\* Variant without the two find tests: every call resets the entry.
addNode_reset(s, n) ==
  [root |-> IF n \in DOMAIN s.root THEN [s.root EXCEPT ![n] = n]
            ELSE s.root @@ (n :> n),
   type |-> IF n \in DOMAIN s.type THEN [s.type EXCEPT ![n] = NULL]
            ELSE s.type @@ (n :> NULL)]

\* Variant that registers a new identifier in the parent map only.
addNode_rootOnly(s, n) ==
  [root |-> IF n \in DOMAIN s.root THEN s.root ELSE s.root @@ (n :> n),
   type |-> s.type]

\* UnionFindSolver::addNode
addNode(s, n) ==
  [root |-> IF n \in DOMAIN s.root THEN s.root ELSE s.root @@ (n :> n),
   type |-> IF n \in DOMAIN s.type THEN s.type ELSE s.type @@ (n :> NULL)]

\* Variant of the loop that follows a single parent link ("if" for "while").
walk_oneStep(root, n) == root[n]

\* The loop of findRoot: follow parent links to a self-parented identifier.
RECURSIVE walk(_, _)
walk(root, n) == IF root[n] = n THEN n ELSE walk(root, root[n])

\* UnionFindSolver::findRoot: the state after the call and the root returned.
findRoot(s, n) ==
  LET s1 == addNode(s, n)
  IN  [root |-> s1.root, type |-> s1.type, err |-> FALSE, ret |-> walk(s1.root, n)]

\* Variant that links the roots before the compatibility check, so that a
\* mismatch throws after the link has been made.
unifyRoots_linkBeforeCheck(s, rootx, rooty) ==
  IF rootx = rooty
    THEN [root |-> s.root, type |-> s.type, err |-> FALSE, ret |-> NULL]
  ELSE IF s.type[rootx] = NULL
    THEN [root |-> [s.root EXCEPT ![rootx] = rooty],
          type |-> [s.type EXCEPT ![rootx] = s.type[rooty]],
          err |-> FALSE, ret |-> NULL]
  ELSE IF s.type[rooty] = NULL
    THEN [root |-> [s.root EXCEPT ![rooty] = rootx],
          type |-> [s.type EXCEPT ![rooty] = s.type[rootx]],
          err |-> FALSE, ret |-> NULL]
  ELSE [root |-> [s.root EXCEPT ![rootx] = rooty], type |-> s.type,
        err |-> ~sameType(s.type[rootx], s.type[rooty]), ret |-> NULL]

\* Variant that copies the payload to an unbound rooty but omits the link.
unifyRoots_noLink(s, rootx, rooty) ==
  IF rootx = rooty
    THEN [root |-> s.root, type |-> s.type, err |-> FALSE, ret |-> NULL]
  ELSE IF s.type[rootx] = NULL
    THEN [root |-> [s.root EXCEPT ![rootx] = rooty],
          type |-> [s.type EXCEPT ![rootx] = s.type[rooty]],
          err |-> FALSE, ret |-> NULL]
  ELSE IF s.type[rooty] = NULL
    THEN [root |-> s.root,
          type |-> [s.type EXCEPT ![rooty] = s.type[rootx]],
          err |-> FALSE, ret |-> NULL]
  ELSE IF ~sameType(s.type[rootx], s.type[rooty])
    THEN [root |-> s.root, type |-> s.type, err |-> TRUE, ret |-> NULL]
  ELSE [root |-> [s.root EXCEPT ![rootx] = rooty],
        type |-> s.type, err |-> FALSE, ret |-> NULL]

\* Variant without the second null test: an unbound rooty reaches sameType.
unifyRoots_noSecondNullTest(s, rootx, rooty) ==
  IF rootx = rooty
    THEN [root |-> s.root, type |-> s.type, err |-> FALSE, ret |-> NULL]
  ELSE IF s.type[rootx] = NULL
    THEN [root |-> [s.root EXCEPT ![rootx] = rooty],
          type |-> [s.type EXCEPT ![rootx] = s.type[rooty]],
          err |-> FALSE, ret |-> NULL]
  ELSE IF ~sameType(s.type[rootx], s.type[rooty])
    THEN [root |-> s.root, type |-> s.type, err |-> TRUE, ret |-> NULL]
  ELSE [root |-> [s.root EXCEPT ![rootx] = rooty],
        type |-> s.type, err |-> FALSE, ret |-> NULL]

\* Variant that always links rootx under rooty, also when only rootx is typed.
unifyRoots_alwaysXunderY(s, rootx, rooty) ==
  IF rootx = rooty
    THEN [root |-> s.root, type |-> s.type, err |-> FALSE, ret |-> NULL]
  ELSE IF s.type[rootx] = NULL
    THEN [root |-> [s.root EXCEPT ![rootx] = rooty],
          type |-> [s.type EXCEPT ![rootx] = s.type[rooty]],
          err |-> FALSE, ret |-> NULL]
  ELSE IF s.type[rooty] = NULL
    THEN [root |-> [s.root EXCEPT ![rootx] = rooty],
          type |-> [s.type EXCEPT ![rooty] = s.type[rootx]],
          err |-> FALSE, ret |-> NULL]
  ELSE IF ~sameType(s.type[rootx], s.type[rooty])
    THEN [root |-> s.root, type |-> s.type, err |-> TRUE, ret |-> NULL]
  ELSE [root |-> [s.root EXCEPT ![rootx] = rooty],
        type |-> s.type, err |-> FALSE, ret |-> NULL]

\* Variant that links rooty under rootx when neither root carries a payload.
unifyRoots_flipUnbound(s, rootx, rooty) ==
  IF rootx = rooty
    THEN [root |-> s.root, type |-> s.type, err |-> FALSE, ret |-> NULL]
  ELSE IF s.type[rootx] = NULL /\ s.type[rooty] = NULL
    THEN [root |-> [s.root EXCEPT ![rooty] = rootx], type |-> s.type,
          err |-> FALSE, ret |-> NULL]
  ELSE IF s.type[rootx] = NULL
    THEN [root |-> [s.root EXCEPT ![rootx] = rooty],
          type |-> [s.type EXCEPT ![rootx] = s.type[rooty]],
          err |-> FALSE, ret |-> NULL]
  ELSE IF s.type[rooty] = NULL
    THEN [root |-> [s.root EXCEPT ![rooty] = rootx],
          type |-> [s.type EXCEPT ![rooty] = s.type[rootx]],
          err |-> FALSE, ret |-> NULL]
  ELSE IF ~sameType(s.type[rootx], s.type[rooty])
    THEN [root |-> s.root, type |-> s.type, err |-> TRUE, ret |-> NULL]
  ELSE [root |-> [s.root EXCEPT ![rootx] = rooty],
        type |-> s.type, err |-> FALSE, ret |-> NULL]

\* Variant without the compatibility test: two typed roots are always linked.
unifyRoots_noCheck(s, rootx, rooty) ==
  IF rootx = rooty
    THEN [root |-> s.root, type |-> s.type, err |-> FALSE, ret |-> NULL]
  ELSE IF s.type[rootx] = NULL
    THEN [root |-> [s.root EXCEPT ![rootx] = rooty],
          type |-> [s.type EXCEPT ![rootx] = s.type[rooty]],
          err |-> FALSE, ret |-> NULL]
  ELSE IF s.type[rooty] = NULL
    THEN [root |-> [s.root EXCEPT ![rooty] = rootx],
          type |-> [s.type EXCEPT ![rooty] = s.type[rootx]],
          err |-> FALSE, ret |-> NULL]
  ELSE [root |-> [s.root EXCEPT ![rootx] = rooty],
        type |-> s.type, err |-> FALSE, ret |-> NULL]

\* Variant that does not hand the payload of rootx to an unbound rooty.
unifyRoots_dropsPayload(s, rootx, rooty) ==
  IF rootx = rooty
    THEN [root |-> s.root, type |-> s.type, err |-> FALSE, ret |-> NULL]
  ELSE IF s.type[rootx] = NULL
    THEN [root |-> [s.root EXCEPT ![rootx] = rooty],
          type |-> [s.type EXCEPT ![rootx] = s.type[rooty]],
          err |-> FALSE, ret |-> NULL]
  ELSE IF s.type[rooty] = NULL
    THEN [root |-> [s.root EXCEPT ![rootx] = rooty], type |-> s.type,
          err |-> FALSE, ret |-> NULL]
  ELSE IF ~sameType(s.type[rootx], s.type[rooty])
    THEN [root |-> s.root, type |-> s.type, err |-> TRUE, ret |-> NULL]
  ELSE [root |-> [s.root EXCEPT ![rootx] = rooty],
        type |-> s.type, err |-> FALSE, ret |-> NULL]

unifyRoots(s, rootx, rooty) ==
  IF rootx = rooty
    THEN [root |-> s.root, type |-> s.type, err |-> FALSE, ret |-> NULL]
  ELSE IF s.type[rootx] = NULL
    THEN [root |-> [s.root EXCEPT ![rootx] = rooty],
          type |-> [s.type EXCEPT ![rootx] = s.type[rooty]],
          err |-> FALSE, ret |-> NULL]
  ELSE IF s.type[rooty] = NULL
    THEN [root |-> [s.root EXCEPT ![rooty] = rootx],
          type |-> [s.type EXCEPT ![rooty] = s.type[rootx]],
          err |-> FALSE, ret |-> NULL]
  ELSE IF ~sameType(s.type[rootx], s.type[rooty])
    THEN [root |-> s.root, type |-> s.type, err |-> TRUE, ret |-> NULL]
  ELSE [root |-> [s.root EXCEPT ![rootx] = rooty],
        type |-> s.type, err |-> FALSE, ret |-> NULL]

\* Variant that takes nodex itself for rootx (no findRoot on the first
\* argument).
unifyNodes_rootxIsNode(s, nodex, nodey) ==
  LET s1 == addNode(addNode(s, nodex), nodey)
      fy == findRoot(s1, nodey)
  IN  unifyRoots([root |-> fy.root, type |-> fy.type], nodex, fy.ret)

\* Variant that takes nodey itself for rooty (no findRoot on the second
\* argument).
unifyNodes_rootyIsNode(s, nodex, nodey) ==
  LET s1 == addNode(addNode(s, nodex), nodey)
      fx == findRoot(s1, nodex)
  IN  unifyRoots([root |-> fx.root, type |-> fx.type], fx.ret, nodey)

\* UnionFindSolver::unifyNodes
unifyNodes(s, nodex, nodey) ==
  LET s1 == addNode(addNode(s, nodex), nodey)
      fx == findRoot(s1, nodex)
      fy == findRoot([root |-> fx.root, type |-> fx.type], nodey)
  IN  unifyRoots([root |-> fy.root, type |-> fy.type], fx.ret, fy.ret)

\* Variant that replaces the payload on a mismatch before throwing.
setRootType_overwrite(s, root, type) ==
  IF s.type[root] = NULL
    THEN [root |-> s.root, type |-> [s.type EXCEPT ![root] = type],
          err |-> FALSE, ret |-> NULL, undef |-> FALSE]
  ELSE IF ~sameType(s.type[root], type)
    THEN IF type = NULL
           THEN [root |-> s.root, type |-> s.type, ret |-> NULL, undef |-> TRUE]
           ELSE [root |-> s.root, type |-> [s.type EXCEPT ![root] = type],
                 err |-> TRUE, ret |-> NULL, undef |-> FALSE]
  ELSE [root |-> s.root, type |-> s.type, err |-> FALSE, ret |-> NULL,
        undef |-> FALSE]

\* Variant without the mismatch test: a typed root accepts any term.
setRootType_noCheck(s, root, type) ==
  IF s.type[root] = NULL
    THEN [root |-> s.root, type |-> [s.type EXCEPT ![root] = type],
          err |-> FALSE, ret |-> NULL, undef |-> FALSE]
  ELSE [root |-> s.root, type |-> s.type, err |-> FALSE, ret |-> NULL,
        undef |-> FALSE]

\* The body of setType once the root is known (lines 58-70).  With a typed
\* root and the null pointer for type, sameType answers false (line 64) and
\* line 67 calls type->print() through the null pointer: undefined
\* behaviour, reached before anything has been written.
setRootType(s, root, type) ==
  IF s.type[root] = NULL
    THEN [root |-> s.root, type |-> [s.type EXCEPT ![root] = type],
          err |-> FALSE, ret |-> NULL, undef |-> FALSE]
  ELSE IF ~sameType(s.type[root], type)
    THEN IF type = NULL
           THEN [root |-> s.root, type |-> s.type, ret |-> NULL, undef |-> TRUE]
           ELSE [root |-> s.root, type |-> s.type, err |-> TRUE, ret |-> NULL,
                 undef |-> FALSE]
  ELSE [root |-> s.root, type |-> s.type, err |-> FALSE, ret |-> NULL,
        undef |-> FALSE]

\* Variant that works on the identifier itself instead of its root.
setType_atNode(s, n, type) ==
  LET f == findRoot(addNode(s, n), n)
  IN  setRootType([root |-> f.root, type |-> f.type], n, type)

\* UnionFindSolver::setType
setType(s, n, type) ==
  LET f == findRoot(addNode(s, n), n)
  IN  setRootType([root |-> f.root, type |-> f.type], f.ret, type)

\* Variant that reads the payload of the identifier itself, not of its root.
getType_atNode(s, n) ==
  LET f == findRoot(addNode(s, n), n)
  IN  [root |-> f.root, type |-> f.type, err |-> FALSE, ret |-> f.type[n]]

\* UnionFindSolver::getType
getType(s, n) ==
  LET f == findRoot(addNode(s, n), n)
  IN  [root |-> f.root, type |-> f.type, err |-> FALSE, ret |-> f.type[f.ret]]

\* The identifier string that the model's identifier n stands for.
nodeStr(n) == "x" \o Digit(n)

\* The message of the TIPTypeError thrown by unifyNodes (lines 45-47).
unifyMessage(s, nodex, rootx, rooty) ==
  " Type error: " \o nodeStr(nodex) \o " " \o printAt(s.type[rootx])
     \o " does not match " \o printAt(s.type[rooty])

\* The message of the TIPTypeError thrown by setType (lines 66-68).
setTypeMessage(s, root, type) ==
  " Type error: " \o nodeStr(root) \o printAt(s.type[root])
     \o " does not match type: " \o printAt(type)

\* what() of the error unifyNodes(nodex, nodey) throws, "" when it returns.
unifyNodesWhat(s, nodex, nodey) ==
  LET fx == findRoot(addNode(addNode(s, nodex), nodey), nodex)
      fy == findRoot([root |-> fx.root, type |-> fx.type], nodey)
      s2 == [root |-> fy.root, type |-> fy.type]
  IN  IF unifyRoots(s2, fx.ret, fy.ret).err
        THEN unifyMessage(s2, nodex, fx.ret, fy.ret)
        ELSE ""

\* what() of the error setType(n, type) throws, "" when it returns.
setTypeWhat(s, n, type) ==
  LET f == findRoot(addNode(s, n), n)
      s2 == [root |-> f.root, type |-> f.type]
  IN  IF setRootType(s2, f.ret, type).err
        THEN setTypeMessage(s2, f.ret, type)
        ELSE ""

(***************************************************************************)
(* The state machine: one action per public operation of the solver.       *)
(* thrown records whether the most recent call threw TIPTypeError, and     *)
(* from which operation: "none", "unifyNodes" or "setType"; it is "killed" *)
(* once a call with undefined behaviour has ended the process, after which *)
(* no operation runs and the maps are shown as they were at that moment.   *)
(* A call with undefined behaviour ends in whichever way the build at hand *)
(* produces: the process is killed where print() reads through the null    *)
(* pointer, or the error is thrown where it does not.                      *)
(***************************************************************************)
cur == [root |-> node2root, type |-> node2type]

\* A freshly constructed solver: both maps empty.
Init ==
  /\ node2root = << >>
  /\ node2type = << >>
  /\ thrown = "none"
  /\ applied = EmptyBag
  /\ failed = FALSE

AddNode ==
  \E n \in Ids :
     LET s1 == addNode(cur, n)
     IN  /\ thrown # "killed"
         /\ node2root' = s1.root
         /\ node2type' = s1.type
         /\ thrown' = "none"
         /\ UNCHANGED <<applied, failed>>

FindRoot ==
  \E n \in Ids :
     LET r == findRoot(cur, n)
     IN  /\ thrown # "killed"
         /\ node2root' = r.root
         /\ node2type' = r.type
         /\ thrown' = "none"
         /\ UNCHANGED <<applied, failed>>

UnifyNodes ==
  \E x, y \in Ids :
     LET r == unifyNodes(cur, x, y)
     IN  /\ thrown # "killed"
         /\ node2root' = r.root
         /\ node2type' = r.type
         /\ thrown' = IF r.err THEN "unifyNodes" ELSE "none"
         /\ UNCHANGED <<applied, failed>>

SetType ==
  \E n \in Ids, t \in TypePtrs \cup {NULL} :
     LET r == setType(cur, n, t)
     IN  /\ thrown # "killed"
         /\ node2root' = r.root
         /\ node2type' = r.type
         /\ thrown' \in IF r.undef THEN {"killed", "setType"}
                        ELSE IF r.err THEN {"setType"} ELSE {"none"}
         /\ UNCHANGED <<applied, failed>>

GetType ==
  \E n \in Ids :
     LET r == getType(cur, n)
     IN  /\ thrown # "killed"
         /\ node2root' = r.root
         /\ node2type' = r.type
         /\ thrown' = "none"
         /\ UNCHANGED <<applied, failed>>

Next == AddNode \/ FindRoot \/ UnifyNodes \/ SetType \/ GetType

Spec == Init /\ [][Next]_vars

(***************************************************************************)
(* A caller that hands a fresh solver a collection of constraints, one at  *)
(* a time in an order of its choosing, and goes on after a type error.     *)
(* applied is the multiset of constraints issued so far, failed tells      *)
(* whether one of them threw.                                              *)
(***************************************************************************)
\* A term without type variables.
RECURSIVE concrete(_)
concrete(t) ==
  CASE t.kind = "int" -> TRUE
    [] t.kind = "var" -> FALSE
    [] t.kind = "ptr" -> concrete(t.inner)
    [] t.kind = "fun" -> /\ \A i \in 1..Len(t.params) : concrete(t.params[i])
                         /\ concrete(t.result)
    [] t.kind = "rec" -> \A i \in 1..Len(t.fields) : concrete(t.fields[i].type)

ConcretePtrs == {p \in TypePtrs : concrete(TypeHeap[p])}

\* The constraint unifyNodes(x, y) and the constraint setType(n, t).
unifyCons(x, y) == [op |-> "unifyNodes", a |-> x, b |-> y]

setTypeCons(n, t) == [op |-> "setType", a |-> n, b |-> t]

\* The solver after one more constraint; err is set once a call has thrown.
applyCons(o, c) ==
  LET r == IF c.op = "unifyNodes"
             THEN unifyNodes([root |-> o.root, type |-> o.type], c.a, c.b)
             ELSE setType([root |-> o.root, type |-> o.type], c.a, c.b)
  IN  [root |-> r.root, type |-> r.type, err |-> o.err \/ r.err]

ApplyUnify ==
  /\ BagCardinality(applied) < MaxCons
  /\ \E x, y \in Ids :
        LET r == unifyNodes(cur, x, y)
        IN  /\ node2root' = r.root
            /\ node2type' = r.type
            /\ thrown' = IF r.err THEN "unifyNodes" ELSE "none"
            /\ applied' = applied (+) SetToBag({unifyCons(x, y)})
            /\ failed' = (failed \/ r.err)

ApplySetType ==
  /\ BagCardinality(applied) < MaxCons
  /\ \E n \in Ids, t \in ConcretePtrs :
        LET r == setType(cur, n, t)
        IN  /\ node2root' = r.root
            /\ node2type' = r.type
            /\ thrown' = IF r.err THEN "setType" ELSE "none"
            /\ applied' = applied (+) SetToBag({setTypeCons(n, t)})
            /\ failed' = (failed \/ r.err)

NextOrder == ApplyUnify \/ ApplySetType

SpecOrder == Init /\ [][NextOrder]_vars

(***************************************************************************)
(* Vocabulary of the properties.                                           *)
(***************************************************************************)
\* The state after the step under consideration.
curP == [root |-> node2root', type |-> node2type']

Registered == DOMAIN node2root

\* The representative of n's class: the self-parented ancestor of n.
RECURSIVE ancestor(_, _, _)
ancestor(root, n, k) ==
  IF root[n] = n \/ k = 0 THEN n ELSE ancestor(root, root[n], k - 1)

classRoot(s, n) == ancestor(addNode(s, n).root, n, NumIds)

sameClass(s, a, b) == classRoot(addNode(s, b), a) = classRoot(addNode(s, a), b)

\* Two payloads denote the same type: both unbound, or both bound to terms
\* with the same printed form.
sameShape(p, q) ==
  \/ p = NULL /\ q = NULL
  \/ p # NULL /\ q # NULL /\ print(TypeHeap[p]) = print(TypeHeap[q])

\* Two bound payloads that do not denote the same type.
mismatch(p, q) == p # NULL /\ q # NULL /\ print(TypeHeap[p]) # print(TypeHeap[q])

\* Two solver states are observably equivalent: same registered identifiers,
\* same partition into classes, same resolved type for every identifier.
observablyEqual(s1, s2) ==
  /\ DOMAIN s1.root = DOMAIN s2.root
  /\ DOMAIN s1.type = DOMAIN s2.type
  /\ LET r1 == [n \in DOMAIN s1.root |-> findRoot(s1, n).ret]
         r2 == [n \in DOMAIN s2.root |-> findRoot(s2, n).ret]
     IN  \A n, m \in DOMAIN r1 : (r1[n] = r1[m]) <=> (r2[n] = r2[m])
  /\ \A n \in DOMAIN s1.root : sameShape(getType(s1, n).ret, getType(s2, n).ret)

\* The step is a successful call setType(n, t).
setTypeSucceeds(n, t) ==
  LET r == setType(cur, n, t)
  IN  /\ ~r.err
      /\ thrown' = "none"
      /\ node2root' = r.root
      /\ node2type' = r.type

\* The solver state part of an outcome.
stateOf(r) == [root |-> r.root, type |-> r.type]

\* The payloads stored anywhere in the forest.
storedPayloads == {node2type[n] : n \in DOMAIN node2type} \ {NULL}

(***************************************************************************)
(* C1: in every reachable forest, unifyNodes(a, b) on two identifiers      *)
(* whose roots carry payloads that are not compatible throws the type      *)
(* error and changes neither map, so findRoot and getType of every         *)
(* identifier are as before the call.                                      *)
(***************************************************************************)
C1_MismatchNoMutation ==
  \A a, b \in Ids :
     mismatch(getType(cur, a).ret, getType(cur, b).ret)
        => LET r == unifyNodes(cur, a, b)
           IN  /\ r.err
               /\ r.root = node2root
               /\ r.type = node2type
               /\ \A n \in Registered :
                     /\ findRoot(stateOf(r), n).ret = findRoot(cur, n).ret
                     /\ getType(stateOf(r), n).ret = getType(cur, n).ret

\* A unifyNodes call has just thrown: the forest holds an Int class and a
\* Pointer class.
C1_Witness ==
  /\ thrown = "unifyNodes"
  /\ \E a, b \in Registered : mismatch(getType(cur, a).ret, getType(cur, b).ret)

(***************************************************************************)
(* C2: among the entries of one class at most one holds a non-null         *)
(* payload: a root linked under another root keeps no payload of its own.  *)
(***************************************************************************)
C2_OnePayloadPerClass ==
  \A a, b \in Registered :
     (a # b /\ sameClass(cur, a, b) /\ node2type[a] # NULL) => node2type[b] = NULL

(***************************************************************************)
(* C3: a class's resolved type, once bound, stays bound to a compatible    *)
(* payload across every later call, failed ones included, and every        *)
(* payload that appears in the forest is the argument of a successful      *)
(* setType or a copy of a payload already stored.                          *)
(***************************************************************************)
C3_TypeStable ==
  [][\/ node2root' = node2root /\ node2type' = node2type
     \/ /\ \A n \in Registered :
              getType(cur, n).ret # NULL
                 => sameShape(getType(cur, n).ret, getType(curP, n).ret)
        /\ \A m \in DOMAIN node2type' :
              (node2type'[m] # NULL /\ node2type'[m] \notin storedPayloads)
                 => \E n \in Ids :
                       setTypeSucceeds(n, node2type'[m])]_vars

\* A typed class with a member linked under another root, right after a
\* call that threw.
C3_Witness ==
  /\ thrown \in {"unifyNodes", "setType"}
  /\ \E n \in Registered : node2root[n] # n /\ getType(cur, n).ret # NULL

(***************************************************************************)
(* C4: transitivity.  From any reachable forest, when unifyNodes(a, b) and *)
(* then unifyNodes(b, c) both succeed, a, b and c have the same root and   *)
(* the same resolved type.                                                 *)
(***************************************************************************)
C4_Transitive ==
  \A a, b \in Ids :
     LET r1 == unifyNodes(cur, a, b)
     IN  ~r1.err
            => \A c \in Ids :
                  LET r2 == unifyNodes(stateOf(r1), b, c)
                      s2 == stateOf(r2)
                      ta == getType(s2, a).ret
                      tb == getType(s2, b).ret
                      tc == getType(s2, c).ret
                  IN  ~r2.err
                         => /\ findRoot(s2, a).ret = findRoot(s2, b).ret
                            /\ findRoot(s2, a).ret = findRoot(s2, c).ret
                            /\ sameShape(ta, tb)
                            /\ sameShape(tb, tc)

\* Three distinct identifiers chained into one typed class by two
\* unifyNodes calls that did not throw.
C4_Witness ==
  /\ thrown = "none"
  /\ \E a, b, c \in Registered :
        /\ a # b /\ b # c /\ a # c
        /\ node2root[a] = b /\ node2root[b] = c /\ node2root[c] = c
        /\ node2type[c] # NULL

(***************************************************************************)
(* C5: symmetry.  From the same forest unifyNodes(a, b) throws exactly     *)
(* when unifyNodes(b, a) throws, and the two resulting forests have the    *)
(* same classes and the same resolved type for every identifier.           *)
(***************************************************************************)
C5_Symmetric ==
  \A a, b \in Ids :
     LET ab == unifyNodes(cur, a, b)
         ba == unifyNodes(cur, b, a)
     IN  /\ ab.err = ba.err
         /\ observablyEqual(stateOf(ab), stateOf(ba))

\* Two classes bound to distinct type objects of the same shape have been
\* merged (line 50); the argument order decided which root, and which of the
\* two objects, survived.
C5_Witness ==
  /\ thrown = "none"
  /\ \E a, b \in Registered :
        /\ node2root[a] = b /\ a # b
        /\ node2type[a] # NULL /\ node2type[b] # NULL
        /\ node2type[a] # node2type[b]

(***************************************************************************)
(* C6: idempotence.  unifyNodes(a, b) on two registered identifiers of the *)
(* same class (a = b included) does not throw and leaves both maps as they *)
(* were, whatever payload the class has.                                   *)
(***************************************************************************)
C6_Idempotent ==
  \A a, b \in Registered :
     sameClass(cur, a, b)
        => LET r == unifyNodes(cur, a, b)
           IN  ~r.err /\ r.root = node2root /\ r.type = node2type

\* Two distinct non-root members of one typed class, one linked under the
\* other: unifying them again is the idempotent case.
C6_Witness ==
  /\ thrown = "none"
  /\ \E a, b \in Registered :
        /\ a # b /\ node2root[a] = b /\ node2root[b] # b
        /\ node2type[b] = NULL
        /\ getType(cur, b).ret # NULL

(***************************************************************************)
(* C7: when exactly one of the two roots carries a payload, unifyNodes     *)
(* succeeds, links the unbound root under the typed root, which stays the  *)
(* representative, and every member of both classes resolves to that       *)
(* payload.                                                                *)
(***************************************************************************)
C7_UnboundUnderTyped ==
  \A a, b \in Ids :
     LET ra == findRoot(cur, a).ret
         rb == findRoot(cur, b).ret
         ta == getType(cur, a).ret
         tb == getType(cur, b).ret
         typed == IF ta # NULL THEN ra ELSE rb
         unbound == IF ta # NULL THEN rb ELSE ra
         payload == IF ta # NULL THEN ta ELSE tb
         r == unifyNodes(cur, a, b)
     IN  ((ta = NULL) # (tb = NULL))
            => /\ ~r.err
               /\ r.root[unbound] = typed
               /\ r.root[typed] = typed
               /\ \A n \in Registered \cup {a, b} :
                     (findRoot(cur, n).ret \in {ra, rb})
                        => /\ findRoot(stateOf(r), n).ret = typed
                           /\ getType(stateOf(r), n).ret = payload

\* A root that was unbound while a member was linked under it now sits
\* under a typed root and holds that root's payload.
C7_Witness ==
  /\ thrown = "none"
  /\ \E a, b, c \in Registered :
        /\ a # b /\ b # c /\ a # c
        /\ node2root[a] = b /\ node2root[b] = c /\ node2root[c] = c
        /\ node2type[a] = NULL /\ node2type[b] # NULL /\ node2type[c] = node2type[b]

(***************************************************************************)
(* C8: setType(id, term) on a class whose root is unbound attaches term    *)
(* to the root, so every member of the class resolves to term; on a class  *)
(* whose root carries a compatible payload it changes neither map.         *)
(***************************************************************************)
C8_SetType ==
  \A n \in Ids, t \in TypePtrs :
     LET root == findRoot(cur, n).ret
         old == getType(cur, n).ret
         r == setType(cur, n, t)
     IN  /\ old = NULL
               => /\ ~r.err
                  /\ r.type[root] = t
                  /\ \A m \in Registered \cup {n} :
                        (findRoot(cur, m).ret = root)
                           => getType(stateOf(r), m).ret = t
         /\ (old # NULL /\ sameShape(old, t))
               => (~r.err /\ r.root = node2root /\ r.type = node2type)

\* A typed class whose root is the only entry with a payload: the class was
\* bound by setType after its members were linked.
C8_Witness ==
  /\ thrown = "none"
  /\ \E a, b \in Registered :
        /\ a # b /\ node2root[a] = b /\ node2root[b] = b
        /\ node2type[a] = NULL /\ node2type[b] # NULL

(***************************************************************************)
(* C9: setType(id, term) on a class whose root carries a payload that is   *)
(* not compatible with term throws the type error and leaves both maps,    *)
(* and so the set of registered identifiers, as they were.                 *)
(***************************************************************************)
C9_SetTypeMismatch ==
  \A n \in Ids, t \in TypePtrs :
     mismatch(getType(cur, n).ret, t)
        => LET r == setType(cur, n, t)
           IN  /\ r.err
               /\ r.root = node2root
               /\ r.type = node2type
               /\ DOMAIN r.root = Registered
               /\ DOMAIN r.type = DOMAIN node2type

\* A setType call has just thrown on a typed class reached through a
\* non-root member.
C9_Witness ==
  /\ thrown = "setType"
  /\ \E n \in Registered : node2root[n] # n /\ getType(cur, n).ret # NULL

(***************************************************************************)
(* C10: two terms are compatible exactly when they are the same variant    *)
(* with pairwise compatible components or either one is an unresolved Var, *)
(* so sameType agrees with this relation on every two payloads of the     *)
(* forest, and unifyNodes on two typed classes whose payloads are          *)
(* compatible in this sense, such as Pointer(Var) and Pointer(Int), does   *)
(* not throw.                                                              *)
(***************************************************************************)
RECURSIVE compatible(_, _)
compatible(t, u) ==
  \/ t.kind = "var"
  \/ u.kind = "var"
  \/ t.kind = "int" /\ u.kind = "int"
  \/ t.kind = "ptr" /\ u.kind = "ptr" /\ compatible(t.inner, u.inner)
  \/ /\ t.kind = "fun" /\ u.kind = "fun"
     /\ Len(t.params) = Len(u.params)
     /\ \A i \in 1..Len(t.params) : compatible(t.params[i], u.params[i])
     /\ compatible(t.result, u.result)
  \/ /\ t.kind = "rec" /\ u.kind = "rec"
     /\ {t.fields[i].name : i \in 1..Len(t.fields)}
           = {u.fields[i].name : i \in 1..Len(u.fields)}
     /\ \A i \in 1..Len(t.fields), j \in 1..Len(u.fields) :
           (t.fields[i].name = u.fields[j].name)
              => compatible(t.fields[i].type, u.fields[j].type)

C10_VarCompatibleWithAny ==
  \A a, b \in Registered :
     LET ta == getType(cur, a).ret
         tb == getType(cur, b).ret
     IN  (ta # NULL /\ tb # NULL)
            => /\ sameType(ta, tb) = compatible(TypeHeap[ta], TypeHeap[tb])
               /\ compatible(TypeHeap[ta], TypeHeap[tb]) => ~unifyNodes(cur, a, b).err

(***************************************************************************)
(* C11: the parent links form a forest.  From every registered identifier  *)
(* the parent links lead, within as many steps as there are identifiers,   *)
(* to a registered identifier that is its own parent, so findRoot          *)
(* terminates and returns that identifier; findRoot on an unseen           *)
(* identifier registers it and returns the identifier itself.              *)
(***************************************************************************)
C11_Forest ==
  /\ \A n \in Registered :
        LET r == ancestor(node2root, n, NumIds)
        IN  r \in Registered /\ node2root[r] = r
  /\ \A n \in Registered :
        LET f == findRoot(cur, n)
        IN  /\ f.ret = ancestor(node2root, n, NumIds)
            /\ f.root = node2root /\ f.type = node2type
  /\ \A n \in Ids \ Registered :
        LET f == findRoot(cur, n)
        IN  /\ f.ret = n
            /\ DOMAIN f.root = Registered \cup {n}
            /\ f.root[n] = n

\* An unbound chain of three identifiers, the longest path the model's
\* forest can hold.
C11_Witness ==
  \E a, b, c \in Registered :
     /\ a # b /\ b # c /\ a # c
     /\ node2root[a] = b /\ node2root[b] = c /\ node2root[c] = c
     /\ node2type[a] = NULL /\ node2type[b] = NULL /\ node2type[c] = NULL

(***************************************************************************)
(* C12: getType(id) returns the payload stored at the root of id's class,  *)
(* NULL when the root has none, and does not throw.  On a registered id it *)
(* leaves both maps as they were; on an unseen id its only effect is the   *)
(* new entry, self-parented and without payload.                           *)
(***************************************************************************)
C12_GetTypeReadOnly ==
  \A n \in Ids :
     LET r == getType(cur, n)
     IN  /\ ~r.err
         /\ n \in Registered
               => /\ r.ret = node2type[classRoot(cur, n)]
                  /\ r.root = node2root
                  /\ r.type = node2type
         /\ n \notin Registered
               => /\ r.ret = NULL
                  /\ DOMAIN r.root = Registered \cup {n}
                  /\ DOMAIN r.type = DOMAIN node2type \cup {n}
                  /\ r.root[n] = n /\ r.type[n] = NULL
                  /\ \A m \in Registered :
                        r.root[m] = node2root[m] /\ r.type[m] = node2type[m]

\* An unseen identifier next to a typed class with a non-root member whose
\* own payload is null: getType of that member must come from the root.
C12_Witness ==
  /\ Ids \ Registered # {}
  /\ \E a, b \in Registered :
        /\ a # b /\ node2root[a] = b /\ node2root[b] = b
        /\ node2type[a] = NULL /\ node2type[b] # NULL

(***************************************************************************)
(* C13: addNode(id) on an absent id creates an entry that is its own       *)
(* parent and has no payload and touches no other entry; on a registered   *)
(* id, root or not, typed or not, it changes nothing; a second addNode     *)
(* changes nothing more.                                                   *)
(***************************************************************************)
C13_AddNodeIdempotent ==
  \A n \in Ids :
     LET s1 == addNode(cur, n)
     IN  /\ n \in Registered => (s1.root = node2root /\ s1.type = node2type)
         /\ n \notin Registered
               => /\ DOMAIN s1.root = Registered \cup {n}
                  /\ DOMAIN s1.type = DOMAIN node2type \cup {n}
                  /\ s1.root[n] = n /\ s1.type[n] = NULL
                  /\ \A m \in Registered :
                        s1.root[m] = node2root[m] /\ s1.type[m] = node2type[m]
         /\ addNode(s1, n) = s1

\* An unseen identifier next to a registered non-root identifier that holds
\* a payload of its own.
C13_Witness ==
  /\ Ids \ Registered # {}
  /\ \E a \in Registered : node2root[a] # a /\ node2type[a] # NULL

(***************************************************************************)
(* C14: the message of every type error, from unifyNodes and from setType  *)
(* alike, is "Type error: ", the context identifier, the printed form of   *)
(* the established payload, "does not match" and the printed form of the   *)
(* conflicting term, separated by single spaces.  A blank before "Type     *)
(* error:" is accepted.                                                    *)
(***************************************************************************)
claimedMessage(ctx, a, b) ==
  "Type error: " \o ctx \o " " \o a \o " does not match " \o b

hasClaimedForm(msg, a, b) ==
  \E n \in Ids :
     \/ msg = claimedMessage(nodeStr(n), a, b)
     \/ msg = " " \o claimedMessage(nodeStr(n), a, b)

C14_MessageForm ==
  /\ \A a, b \in Ids :
        unifyNodes(cur, a, b).err
           => hasClaimedForm(unifyNodesWhat(cur, a, b),
                             printAt(getType(cur, a).ret),
                             printAt(getType(cur, b).ret))
  /\ \A n \in Ids, t \in TypePtrs :
        setType(cur, n, t).err
           => hasClaimedForm(setTypeWhat(cur, n, t),
                             printAt(getType(cur, n).ret), printAt(t))

\* The part of C14 about unifyNodes alone.
C14_UnifyMessageForm ==
  \A a, b \in Ids :
     unifyNodes(cur, a, b).err
        => hasClaimedForm(unifyNodesWhat(cur, a, b),
                          printAt(getType(cur, a).ret),
                          printAt(getType(cur, b).ret))

(***************************************************************************)
(* C15: when neither root carries a payload, unifyNodes(a, b) links the    *)
(* root of a under the root of b and does nothing else: the outcome is the *)
(* forest with that one parent link changed, so it is determined by the    *)
(* forest and the arguments; afterwards findRoot(a) = findRoot(b) = the    *)
(* former root of b and the merged class is still unbound.                 *)
(***************************************************************************)
C15_UnboundLink ==
  \A a, b \in Ids :
     LET s0 == addNode(addNode(cur, a), b)
         ra == classRoot(cur, a)
         rb == classRoot(cur, b)
         r  == unifyNodes(cur, a, b)
     IN  (s0.type[ra] = NULL /\ s0.type[rb] = NULL)
            => /\ ~r.err
               /\ r.root = [s0.root EXCEPT ![ra] = rb]
               /\ r.type = s0.type
               /\ findRoot(stateOf(r), a).ret = rb
               /\ findRoot(stateOf(r), b).ret = rb
               /\ getType(stateOf(r), a).ret = NULL
               /\ getType(stateOf(r), b).ret = NULL

\* Two unbound classes have been merged by unifyNodes, the root with the
\* larger identifier linked under the root with the smaller one.
C15_Witness ==
  \E a, b \in Registered :
     /\ a > b
     /\ node2root[a] = b
     /\ node2root[b] = b
     /\ node2type[a] = NULL
     /\ node2type[b] = NULL
     /\ \E c \in Registered : c # a /\ c # b /\ node2root[c] = c /\ node2type[c] = NULL

(***************************************************************************)
(* C16: a successful unifyNodes(a, b) merges the classes of a and b and    *)
(* nothing else: an identifier outside the two classes keeps its root and  *)
(* its resolved type, two identifiers of one class stay together, and two  *)
(* identifiers share a class afterwards exactly if they did before or both *)
(* belong to the two merged classes.  findRoot, getType, addNode and       *)
(* setType leave the partition into classes as it was.                     *)
(***************************************************************************)
\* The root of every identifier of the set D in the forest s; an identifier
\* that s does not hold is a class of its own.
rootsOf(s, D) ==
  [n \in D |-> IF n \in DOMAIN s.root THEN ancestor(s.root, n, NumIds) ELSE n]

samePartition(s, r) ==
  LET D  == DOMAIN r.root
      r0 == rootsOf(s, D)
      r1 == rootsOf(r, D)
  IN  \/ r.root = s.root
      \/ \A p, q \in D : (r1[p] = r1[q]) <=> (r0[p] = r0[q])

C16_UnifyFrame ==
  /\ \A a, b \in Ids :
        LET r  == unifyNodes(cur, a, b)
            D  == Registered \cup {a, b}
            r0 == rootsOf(cur, D)
            r1 == rootsOf(r, D)
            merged == {n \in D : r0[n] \in {r0[a], r0[b]}}
        IN  ~r.err
              => /\ DOMAIN r.root = D
                 /\ DOMAIN r.type = D
                 /\ \A n \in D \ merged :
                       /\ r1[n] = r0[n]
                       /\ r.type[r1[n]] = node2type[r0[n]]
                 /\ \A n, m \in D :
                       (r1[n] = r1[m])
                          <=> \/ r0[n] = r0[m]
                              \/ n \in merged /\ m \in merged
  /\ \A n \in Ids :
        /\ samePartition(cur, findRoot(cur, n))
        /\ samePartition(cur, getType(cur, n))
        /\ samePartition(cur, addNode(cur, n))
        /\ \A t \in TypePtrs : samePartition(cur, setType(cur, n, t))

\* A two-member class next to a separate class whose payload does not match
\* the first one's: the forest has a class that a unification must leave
\* alone, and a class whose members must stay together.
C16_Witness ==
  \E a, b, c \in Registered :
     /\ a # b /\ a # c /\ b # c
     /\ node2root[a] = b
     /\ node2root[b] = b
     /\ node2root[c] = c
     /\ mismatch(node2type[b], node2type[c])

(***************************************************************************)
(* C17: the payload stored at an identifier that is not a root is null or  *)
(* has the same printed form as the payload stored at its root, so a stale *)
(* payload never disagrees with the type getType reports for the class.    *)
(***************************************************************************)
C17_StalePayloadAgrees ==
  \A n \in Registered :
     node2root[n] # n
        => \/ node2type[n] = NULL
           \/ sameShape(node2type[n], getType(cur, n).ret)

\* A linked identifier holds a payload of its own that is a different term
\* object from the one at its root.
C17_Witness ==
  \E a, b \in Registered :
     /\ node2root[a] = b
     /\ node2root[b] = b
     /\ a # b
     /\ node2type[a] # NULL
     /\ node2type[b] # NULL
     /\ node2type[a] # node2type[b]

(***************************************************************************)
(* C18: the parent map and the payload map have the same keys, the parent  *)
(* of every registered identifier is registered, and every operation       *)
(* leaves the two maps with equal key sets that contain all keys they had  *)
(* before.                                                                 *)
(***************************************************************************)
keepsKeys(r) ==
  /\ DOMAIN r.root = DOMAIN r.type
  /\ DOMAIN node2root \subseteq DOMAIN r.root
  /\ DOMAIN node2type \subseteq DOMAIN r.type

C18_SameKeys ==
  /\ DOMAIN node2root = DOMAIN node2type
  /\ \A n \in DOMAIN node2root : node2root[n] \in DOMAIN node2root
  /\ \A n \in Ids :
        /\ keepsKeys(addNode(cur, n))
        /\ keepsKeys(findRoot(cur, n))
        /\ keepsKeys(getType(cur, n))
        /\ \A t \in TypePtrs : keepsKeys(setType(cur, n, t))
        /\ \A m \in Ids : keepsKeys(unifyNodes(cur, n, m))

\* Every identifier is registered, one of them linked under another and one
\* carrying a payload, and the last call threw.
C18_Witness ==
  /\ Registered = Ids
  /\ thrown \in {"unifyNodes", "setType"}
  /\ \E a \in Registered : node2root[a] # a
  /\ \E a \in Registered : node2type[a] # NULL

(***************************************************************************)
(* C19: order independence.  Whatever order a multiset of unifyNodes and   *)
(* setType constraints over variable-free terms is issued in to a fresh    *)
(* solver, a type error is raised either in every order or in none, and    *)
(* the orders without error end with the same partition into classes and   *)
(* the same resolved type for every identifier.  Every order is compared   *)
(* with one fixed order of the same multiset.                              *)
(***************************************************************************)
\* A freshly constructed solver on which no call has thrown.
fresh == [root |-> << >>, type |-> << >>, err |-> FALSE]

\* The constraints of the multiset B issued in one fixed order.
RECURSIVE runBag(_, _)
runBag(o, B) ==
  IF BagToSet(B) = {} THEN o
  ELSE LET c == CHOOSE c \in BagToSet(B) : TRUE
       IN  runBag(applyCons(o, c), B (-) SetToBag({c}))

C19_OrderIndependent ==
  LET o == runBag(fresh, applied)
  IN  /\ failed <=> o.err
      /\ ~failed => observablyEqual(cur, stateOf(o))

\* MaxCons constraints, among them a unifyNodes and a setType, have run
\* without error and left a forest whose links or stored payloads differ
\* from those the fixed order leaves.
C19_Witness ==
  /\ BagCardinality(applied) = MaxCons
  /\ ~failed
  /\ \E c \in BagToSet(applied) : c.op = "unifyNodes" /\ c.a # c.b
  /\ \E c \in BagToSet(applied) : c.op = "setType"
  /\ cur # stateOf(runBag(fresh, applied))

\* Some order of MaxCons constraints has raised a type error.
C19_FailedReached ==
  /\ BagCardinality(applied) = MaxCons
  /\ failed
  /\ thrown = "none"

====
